---- MODULE Spec2Model ----
(***************************************************************************)
(* WorldCorpusBuilder.build_corpus (src/generate_world/world_generator.py, *)
(* duplicated as BFSWorldCorpusBuilder in generate_world.py): the          *)
(* breadth-first corpus construction over a generation service.            *)
(*                                                                         *)
(* The builder's fields and build_corpus's locals are the variables; pc is *)
(* the position of the single thread inside build_corpus.  The two calls   *)
(* into the generation service (dspy modules) are the points where the     *)
(* environment answers: any facts/subtopics/article, or an exception.      *)
(***************************************************************************)
EXTENDS Integers, Sequences, FiniteSets, TLC

VARIABLES
    topic_name,        \* self.topic_name
    topic_description, \* self.topic_description
    max_depth,         \* self.max_depth
    generated_corpus,  \* self.generated_corpus: dict, kept in insertion order
    queue,             \* self.queue: deque of (name, description, depth)
    visited_topics,    \* self.visited_topics
    ancestral_facts,   \* local list of build_corpus
    item,              \* locals topic_name, topic_description, depth of the iteration
    fs_prediction,     \* local fs_prediction
    article_prediction,\* local article_prediction
    pc,                \* position inside build_corpus
    service,           \* which generation service the builder talks to
    calls,             \* history: the calls the generation service received
    popped,            \* history: the items taken by queue.popleft()
    base_dir,          \* the entries of the directory given to get_next_run_directory
    run_results,       \* history: what each get_next_run_directory call saw and did
    original_filename, \* the string given to convert_to_linux_filename
    replacement_char,  \* its replacement_char argument
    converted,         \* what the call returned or raised
    reconverted,       \* what a call on the returned filename returned or raised
    lm_calls,          \* history: the calls made inside FactAndSubtopicGenerator.forward
    first_build,       \* what the build of an earlier builder with the same arguments gave
    reinvocations,     \* how many times build_corpus was called again on this builder
    entered_with       \* how many corpus entries there were when build_corpus was entered

\* the file system under the output directory
fs_vars == <<base_dir, run_results>>

\* the builder, its thread and its generation service
builder_vars == <<topic_name, topic_description, max_depth, generated_corpus,
                  queue, visited_topics, ancestral_facts, item, fs_prediction,
                  article_prediction, pc, service, calls, popped>>

\* the arguments and the outcome of convert_to_linux_filename
filename_vars == <<original_filename, replacement_char, converted, reconverted>>

\* the calls FactAndSubtopicGenerator.forward makes to its two generators
forward_vars == <<lm_calls>>

\* what lies outside one build_corpus call: earlier builders and earlier calls
session_vars == <<first_build, reinvocations, entered_with>>

vars == <<builder_vars, fs_vars, filename_vars, forward_vars, session_vars>>

----------------------------------------------------------------------------
(* Bounds of the model *)

\* max_depth is drawn from MinDepth..MaxDepthBound
MaxDepthBound == 2
\* over one build the generation service proposes at most MaxProposed
\* subtopics in all, split over its answers in any way
MaxProposed == 4

\* the constructor accepts any int: one negative max_depth is enough to
\* exercise the depth check at dequeue
MinDepth == 0 - 1

\* replacement_char: str = '_', as a string of characters
DefaultReplacement == <<"_">>

\* no earlier builder was run
NoBuild == [done |-> FALSE, outcome |-> "none", corpus |-> <<>>, calls |-> <<>>]

\* convert_to_linux_filename has not been called
NotCalled == [outcome |-> "none", filename |-> <<>>]

RootName == "A"
\* the root names of the builders constructed with any name
RootNames == {"A", ""}
RootDescription == "desc A"

\* names a generation service may propose ("" is a subtopic without a name)
SubNames == {"", "A", "B", "C"}

DescOf(n) ==
    CASE n = "A" -> "desc A"
      [] n = "B" -> "desc B"
      [] n = "C" -> "desc C"
      [] OTHER   -> "no name"

\* SubtopicDetail(name, description)
SubtopicDetail(n, d) == [name |-> n, description |-> d]

Details == {SubtopicDetail(n, DescOf(n)) : n \in SubNames}

SeqsUpTo(S, k) == UNION {[1..n -> S] : n \in 0..k}

\* the subtopic lists of at most k entries
SubtopicLists(k) == SeqsUpTo(Details, k)

\* the facts a generation service states about a topic: opaque strings the
\* builder never inspects, distinct per topic so that their origin shows
FactsOf(n) ==
    CASE n = "A" -> <<"f1", "f2">>
      [] n = "B" -> <<"f3">>
      [] n = "C" -> <<"f4">>
      [] OTHER   -> <<>>

Articles == {"# article"}

Services == {"any", "stub"}

----------------------------------------------------------------------------
(* The generation service *)

\* dspy.Prediction(facts=facts, subtopics=subtopics)
Prediction(f, s) == [facts |-> f, subtopics |-> s]

NoPrediction == [facts |-> <<>>, subtopics |-> <<>>]
NoItem == [topic_name |-> "", topic_description |-> "", depth |-> 0]
NoArticle == ""

\* the stub service of the end-to-end scenario
StubPrediction(n) ==
    IF n = "A"
    THEN Prediction(FactsOf(n), <<SubtopicDetail("B", "desc B"),
                                  SubtopicDetail("C", "desc C")>>)
    ELSE Prediction(FactsOf(n), <<>>)

RECURSIVE ProposedIn(_)
\* the number of subtopics proposed by the answers logged in c
ProposedIn(c) ==
    IF c = <<>> THEN 0
    ELSE ProposedIn(Tail(c))
         + (IF Head(c).op = "fs" THEN Len(Head(c).returned.subtopics) ELSE 0)

\* what FactAndSubtopicGenerator.forward may return for a topic
FactSubtopicAnswers(n) ==
    IF service = "stub"
    THEN {StubPrediction(n)}
    ELSE {Prediction(FactsOf(n), s) :
             s \in SubtopicLists(MaxProposed - ProposedIn(calls))}

\* what ArticleFromFactsGenerator.forward may return
ArticleAnswers == Articles

\* the stub never raises; any other service may
MayFail == service # "stub"

----------------------------------------------------------------------------
(* Helpers of build_corpus *)

\* the same breadth asked at every depth
NumSubtopicsFlat(depth) == 4

\* num_subtopics=8 if depth == 0 else 4
NumSubtopics(depth) == IF depth = 0 THEN 8 ELSE 4

\* the visited check left out
NeverVisited(n) == FALSE

\* if topic_name in self.visited_topics
AlreadyVisited(n) == n \in visited_topics

\* the depth check at dequeue written with >= for >
SkipAtMaxDepth(depth) == depth >= max_depth

\* the depth check at dequeue left out
NoDepthCheck(depth) == FALSE

\* if depth > self.max_depth
ExceedsMaxDepth(depth) == depth > max_depth

\* the enqueue guard written with <= for <
QueueAtMaxDepth(depth) == depth <= max_depth

\* if depth < self.max_depth
ShouldQueueSubtopics(depth) == depth < max_depth

\* the topic's own facts already appended when the article is requested
ArticleSeesOwnFacts(anc, facts) == anc \o facts

\* ancestral_facts argument of the article call
ArticleAncestralFacts(anc, facts) == anc

\* assignment in place of extend
ExtendReplaces(anc, facts) == facts

\* ancestral_facts.extend(fs_prediction.facts)
Extend(anc, facts) == anc \o facts

\* the topic not recorded as visited
MarkNothing(visited, n) == visited

\* self.visited_topics.add(topic_name)
MarkVisited(visited, n) == visited \cup {n}

\* the exception caught and the iteration carried on with the locals as they are
ContinueAfterError == "insert"

\* no try/except around the generation calls: an exception leaves the loop
\* and build_corpus
OnGenerationError == "raised"

\* the record keeping only the subtopics that have a name
GeneratedArticleDataNamedOnly(article, facts, subtopics, depth) ==
    [article |-> article, facts |-> facts,
     subtopics |-> SelectSeq(subtopics, LAMBDA d : d.name # ""),
     depth |-> depth]

\* GeneratedArticleData(article=..., facts=..., subtopics=..., depth=depth)
GeneratedArticleData(article, facts, subtopics, depth) ==
    [article |-> article, facts |-> facts, subtopics |-> subtopics,
     depth |-> depth]

\* keys of a dict, in insertion order
Keys(d) == [i \in 1..Len(d) |-> d[i].key]

HasKey(d, k) == \E i \in 1..Len(d) : d[i].key = k

\* the corpus rebound to a new dict holding the one entry
DictSetFresh(d, k, v) == <<[key |-> k, value |-> v]>>

\* d[k] = v on a Python dict: overwrite in place, or insert at the end
DictSet(d, k, v) ==
    IF HasKey(d, k)
    THEN [i \in 1..Len(d) |-> IF d[i].key = k THEN [key |-> k, value |-> v]
                                               ELSE d[i]]
    ELSE Append(d, [key |-> k, value |-> v])

\* d[k]
DictGet(d, k) == d[CHOOSE i \in 1..Len(d) : d[i].key = k].value

\* the visited check at enqueue left out
QueuesVisitedNames(s) == s.name # ""

\* the truthiness check of the name left out
QueuesEmptyNames(s) == ~(s.name \in visited_topics)

\* if sub_name and sub_name not in self.visited_topics
QueueableSubtopic(s) == s.name # "" /\ ~(s.name \in visited_topics)

\* the new items put at the front of the queue
QueueAppendLeft(q, items) == items \o q

\* self.queue.append(...) for each item in turn: the items join the tail
QueueAppend(q, items) == q \o items

\* the loop appending the parent's depth, not depth + 1
SubtopicItemsSameDepth(subtopics, depth) ==
    LET sel == SelectSeq(subtopics, QueueableSubtopic)
    IN  [i \in 1..Len(sel) |->
            [topic_name |-> sel[i].name,
             topic_description |-> sel[i].description,
             depth |-> depth]]

\* the items the for loop over fs_prediction.subtopics appends
SubtopicItems(subtopics, depth) ==
    LET sel == SelectSeq(subtopics, QueueableSubtopic)
    IN  [i \in 1..Len(sel) |->
            [topic_name |-> sel[i].name,
             topic_description |-> sel[i].description,
             depth |-> depth + 1]]

----------------------------------------------------------------------------
(* State after WorldCorpusBuilder(topic_name, topic_description, max_depth) *)

Init ==
    /\ topic_name = RootName
    /\ topic_description = RootDescription
    /\ max_depth \in MinDepth..MaxDepthBound
    /\ service \in Services
    /\ generated_corpus = <<>>
    /\ queue = <<>>
    /\ visited_topics = {}
    /\ ancestral_facts = <<>>
    /\ item = NoItem
    /\ fs_prediction = NoPrediction
    /\ article_prediction = NoArticle
    /\ pc = "start"
    /\ calls = <<>>
    /\ popped = <<>>
    /\ base_dir = {}
    /\ run_results = <<>>
    /\ original_filename = <<>>
    /\ replacement_char = DefaultReplacement
    /\ converted = NotCalled
    /\ reconverted = NotCalled
    /\ lm_calls = <<>>
    /\ first_build = NoBuild
    /\ reinvocations = 0
    /\ entered_with = 0

\* the same for a root name that may be empty: the constructor takes any str
InitAnyRoot ==
    /\ topic_name \in RootNames
    /\ topic_description = RootDescription
    /\ max_depth \in MinDepth..MaxDepthBound
    /\ service \in Services
    /\ generated_corpus = <<>>
    /\ queue = <<>>
    /\ visited_topics = {}
    /\ ancestral_facts = <<>>
    /\ item = NoItem
    /\ fs_prediction = NoPrediction
    /\ article_prediction = NoArticle
    /\ pc = "start"
    /\ calls = <<>>
    /\ popped = <<>>
    /\ base_dir = {}
    /\ run_results = <<>>
    /\ original_filename = <<>>
    /\ replacement_char = DefaultReplacement
    /\ converted = NotCalled
    /\ reconverted = NotCalled
    /\ lm_calls = <<>>
    /\ first_build = NoBuild
    /\ reinvocations = 0
    /\ entered_with = 0

----------------------------------------------------------------------------
(* build_corpus, step by step *)

\* self.queue.append((self.topic_name, self.topic_description, 0));
\* ancestral_facts = []
BuildCorpusEntry ==
    /\ pc = "start"
    /\ queue' = Append(queue, [topic_name |-> topic_name,
                               topic_description |-> topic_description,
                               depth |-> 0])
    /\ ancestral_facts' = <<>>
    /\ pc' = "loop"
    /\ UNCHANGED <<fs_vars, filename_vars, forward_vars, session_vars>>
    /\ UNCHANGED <<topic_name, topic_description, max_depth, generated_corpus,
                   visited_topics, item, fs_prediction, article_prediction,
                   service, calls, popped>>

\* while self.queue: fails; return self.generated_corpus
ReturnCorpus ==
    /\ pc = "loop"
    /\ queue = <<>>
    /\ pc' = "returned"
    /\ UNCHANGED <<fs_vars, filename_vars, forward_vars, session_vars>>
    /\ UNCHANGED <<topic_name, topic_description, max_depth, generated_corpus,
                   queue, visited_topics, ancestral_facts, item, fs_prediction,
                   article_prediction, service, calls, popped>>

Popleft ==
    /\ pc = "loop"
    /\ queue # <<>>
    /\ item' = Head(queue)
    /\ queue' = Tail(queue)
    /\ popped' = Append(popped,
                        [topic_name |-> Head(queue).topic_name,
                         depth |-> Head(queue).depth,
                         was_visited |-> Head(queue).topic_name \in visited_topics])

\* popleft; if topic_name in self.visited_topics: continue
SkipVisited ==
    /\ Popleft
    /\ AlreadyVisited(Head(queue).topic_name)
    /\ pc' = "loop"
    /\ UNCHANGED <<fs_vars, filename_vars, forward_vars, session_vars>>
    /\ UNCHANGED <<topic_name, topic_description, max_depth, generated_corpus,
                   visited_topics, ancestral_facts, fs_prediction,
                   article_prediction, service, calls>>

\* popleft; if depth > self.max_depth: continue
SkipDepth ==
    /\ Popleft
    /\ ~AlreadyVisited(Head(queue).topic_name)
    /\ ExceedsMaxDepth(Head(queue).depth)
    /\ pc' = "loop"
    /\ UNCHANGED <<fs_vars, filename_vars, forward_vars, session_vars>>
    /\ UNCHANGED <<topic_name, topic_description, max_depth, generated_corpus,
                   visited_topics, ancestral_facts, fs_prediction,
                   article_prediction, service, calls>>

\* popleft; self.visited_topics.add(topic_name)
BeginTopic ==
    /\ Popleft
    /\ ~AlreadyVisited(Head(queue).topic_name)
    /\ ~ExceedsMaxDepth(Head(queue).depth)
    /\ visited_topics' = MarkVisited(visited_topics, Head(queue).topic_name)
    /\ pc' = "fs_call"
    /\ UNCHANGED <<fs_vars, filename_vars, forward_vars, session_vars>>
    /\ UNCHANGED <<topic_name, topic_description, max_depth, generated_corpus,
                   ancestral_facts, fs_prediction, article_prediction, service,
                   calls>>

\* two call records carry the same arguments
SameArguments(m, c) ==
    /\ m.op = c.op
    /\ m.topic_name = c.topic_name
    /\ m.ancestral_facts = c.ancestral_facts
    /\ m.op = "fs" => /\ m.topic_description = c.topic_description
                      /\ m.num_subtopics = c.num_subtopics
    /\ m.op = "article" => m.facts = c.facts

\* the service is a function of the call's arguments: it may raise on c
\* unless it answered the same arguments when the earlier builder called it
MayRaiseOn(c) ==
    \A k \in 1..Len(first_build.calls) :
        SameArguments(first_build.calls[k], c) => ~first_build.calls[k].ok

\* the answers among S that a service being a function of its arguments may
\* give to call c: what it answered to the same arguments before, if it was
\* given them before, and any answer of S otherwise
Determined(S, c) ==
    LET past == {k \in 1..Len(first_build.calls) :
                    SameArguments(first_build.calls[k], c)}
    IN IF past = {} THEN S
       ELSE {first_build.calls[k].returned : k \in {j \in past : first_build.calls[j].ok}}

FsCall(returned, ok) ==
    [op |-> "fs",
     topic_name |-> item.topic_name,
     topic_description |-> item.topic_description,
     ancestral_facts |-> ancestral_facts,
     num_subtopics |-> NumSubtopics(item.depth),
     ok |-> ok,
     returned |-> returned]

\* the keyword arguments of self.facts_generator(...)
FactsGeneratorKeywords == {"topic_name", "topic_description", "ancestral_facts"}

\* the keyword arguments of self.subtopics_generator(...)
SubtopicsGeneratorKeywords ==
    {"topic_name", "topic_description", "facts", "ancestral_facts", "num_subtopics"}

\* self.facts_generator(topic_name=..., topic_description=..., ancestral_facts=...)
FactsGeneratorCall(ok, returned) ==
    [gen |-> "facts",
     keywords |-> FactsGeneratorKeywords,
     topic_name |-> item.topic_name,
     topic_description |-> item.topic_description,
     facts |-> <<>>,
     ancestral_facts |-> ancestral_facts,
     num_subtopics |-> 0,
     ok |-> ok,
     returned |-> returned]

\* the subtopics generator called without the facts just generated
FactsNotPassed(facts) == <<>>

\* facts=facts
SubtopicsFactsArg(facts) == facts

\* self.subtopics_generator(topic_name=..., ..., facts=facts, ..., num_subtopics=...)
SubtopicsGeneratorCall(facts, ok, returned) ==
    [gen |-> "subtopics",
     keywords |-> SubtopicsGeneratorKeywords,
     topic_name |-> item.topic_name,
     topic_description |-> item.topic_description,
     facts |-> SubtopicsFactsArg(facts),
     ancestral_facts |-> ancestral_facts,
     num_subtopics |-> NumSubtopics(item.depth),
     ok |-> ok,
     returned |-> returned]

\* forward returns Prediction(f, s): both generators answered, facts first
ForwardReturns(f, s) ==
    lm_calls \o <<FactsGeneratorCall(TRUE, f), SubtopicsGeneratorCall(f, TRUE, s)>>

\* forward raises: in the facts generator, or in the subtopics generator
\* after the facts generator answered
ForwardRaises(f) ==
    { Append(lm_calls, FactsGeneratorCall(FALSE, <<>>)),
      lm_calls \o <<FactsGeneratorCall(TRUE, f), SubtopicsGeneratorCall(f, FALSE, <<>>)>> }

\* fs_prediction = self.fact_subtopic_generator(...)
GenerateFactsAndSubtopics ==
    /\ pc = "fs_call"
    /\ \E p \in Determined(FactSubtopicAnswers(item.topic_name),
                           FsCall(NoPrediction, TRUE)) :
          /\ fs_prediction' = p
          /\ calls' = Append(calls, FsCall(p, TRUE))
          /\ lm_calls' = ForwardReturns(p.facts, p.subtopics)
    /\ pc' = "article_call"
    /\ UNCHANGED <<fs_vars, filename_vars, session_vars>>
    /\ UNCHANGED <<topic_name, topic_description, max_depth, generated_corpus,
                   queue, visited_topics, ancestral_facts, item,
                   article_prediction, service, popped>>

\* self.fact_subtopic_generator(...) raises: the exception leaves build_corpus
FactsAndSubtopicsFail ==
    /\ pc = "fs_call"
    /\ MayFail
    /\ MayRaiseOn(FsCall(NoPrediction, FALSE))
    /\ calls' = Append(calls, FsCall(NoPrediction, FALSE))
    /\ lm_calls' \in ForwardRaises(FactsOf(item.topic_name))
    /\ pc' = OnGenerationError
    /\ UNCHANGED <<fs_vars, filename_vars, session_vars>>
    /\ UNCHANGED <<topic_name, topic_description, max_depth, generated_corpus,
                   queue, visited_topics, ancestral_facts, item, fs_prediction,
                   article_prediction, service, popped>>

ArticleCall(returned, ok) ==
    [op |-> "article",
     topic_name |-> item.topic_name,
     facts |-> fs_prediction.facts,
     ancestral_facts |-> ArticleAncestralFacts(ancestral_facts,
                                               fs_prediction.facts),
     ok |-> ok,
     returned |-> returned]

\* article_prediction = self.article_generator(...)
GenerateArticle ==
    /\ pc = "article_call"
    /\ \E a \in Determined(ArticleAnswers, ArticleCall(NoArticle, TRUE)) :
          /\ article_prediction' = a
          /\ calls' = Append(calls, ArticleCall(a, TRUE))
    /\ pc' = "insert"
    /\ UNCHANGED <<fs_vars, filename_vars, forward_vars, session_vars>>
    /\ UNCHANGED <<topic_name, topic_description, max_depth, generated_corpus,
                   queue, visited_topics, ancestral_facts, item, fs_prediction,
                   service, popped>>

\* self.article_generator(...) raises: the exception leaves build_corpus
ArticleFail ==
    /\ pc = "article_call"
    /\ MayFail
    /\ MayRaiseOn(ArticleCall(NoArticle, FALSE))
    /\ calls' = Append(calls, ArticleCall(NoArticle, FALSE))
    /\ pc' = OnGenerationError
    /\ UNCHANGED <<fs_vars, filename_vars, forward_vars, session_vars>>
    /\ UNCHANGED <<topic_name, topic_description, max_depth, generated_corpus,
                   queue, visited_topics, ancestral_facts, item, fs_prediction,
                   article_prediction, service, popped>>

\* self.generated_corpus[topic_name] = article_data_entry
InsertCorpus ==
    /\ pc = "insert"
    /\ generated_corpus' =
          DictSet(generated_corpus, item.topic_name,
                  GeneratedArticleData(article_prediction, fs_prediction.facts,
                                       fs_prediction.subtopics, item.depth))
    /\ pc' = "extend"
    /\ UNCHANGED <<fs_vars, filename_vars, forward_vars, session_vars>>
    /\ UNCHANGED <<topic_name, topic_description, max_depth, queue,
                   visited_topics, ancestral_facts, item, fs_prediction,
                   article_prediction, service, calls, popped>>

\* ancestral_facts.extend(fs_prediction.facts)
ExtendAncestralFacts ==
    /\ pc = "extend"
    /\ ancestral_facts' = Extend(ancestral_facts, fs_prediction.facts)
    /\ pc' = "enqueue"
    /\ UNCHANGED <<fs_vars, filename_vars, forward_vars, session_vars>>
    /\ UNCHANGED <<topic_name, topic_description, max_depth, generated_corpus,
                   queue, visited_topics, item, fs_prediction,
                   article_prediction, service, calls, popped>>

\* if depth < self.max_depth: for sub_item_pydantic in fs_prediction.subtopics: ...
QueueSubtopics ==
    /\ pc = "enqueue"
    /\ queue' = IF ShouldQueueSubtopics(item.depth)
                THEN QueueAppend(queue, SubtopicItems(fs_prediction.subtopics,
                                                      item.depth))
                ELSE queue
    /\ pc' = "loop"
    /\ UNCHANGED <<fs_vars, filename_vars, forward_vars, session_vars>>
    /\ UNCHANGED <<topic_name, topic_description, max_depth, generated_corpus,
                   visited_topics, ancestral_facts, item, fs_prediction,
                   article_prediction, service, calls, popped>>

Next ==
    \/ BuildCorpusEntry
    \/ ReturnCorpus
    \/ SkipVisited
    \/ SkipDepth
    \/ BeginTopic
    \/ GenerateFactsAndSubtopics
    \/ FactsAndSubtopicsFail
    \/ GenerateArticle
    \/ ArticleFail
    \/ InsertCorpus
    \/ ExtendAncestralFacts
    \/ QueueSubtopics

Spec == Init /\ [][Next]_vars

\* builds of builders constructed with any root name
SpecAnyRoot == InitAnyRoot /\ [][Next]_vars

\* the thread runs and every call into the service comes back
FairSpec == Spec /\ WF_vars(Next)

\* the visited set of an earlier builder handed to the new one
SharedVisitedTopics(old) == old

\* self.visited_topics = set()
NewVisitedTopics(old) == {}

\* the first builder is done; WorldCorpusBuilder(...) is constructed again
\* with the same arguments and the same generators
NewBuilder ==
    /\ pc \in {"returned", "raised"}
    /\ ~first_build.done
    /\ first_build' = [done |-> TRUE, outcome |-> pc,
                       corpus |-> generated_corpus, calls |-> calls]
    /\ generated_corpus' = <<>>
    /\ queue' = <<>>
    /\ visited_topics' = NewVisitedTopics(visited_topics)
    /\ ancestral_facts' = <<>>
    /\ item' = NoItem
    /\ fs_prediction' = NoPrediction
    /\ article_prediction' = NoArticle
    /\ pc' = "start"
    /\ calls' = <<>>
    /\ popped' = <<>>
    /\ lm_calls' = <<>>
    /\ UNCHANGED <<topic_name, topic_description, max_depth, service,
                   reinvocations, entered_with>>
    /\ UNCHANGED <<fs_vars, filename_vars>>

\* how many times build_corpus is called again on one builder
MaxReinvocations == 2

\* build_corpus() called again on the same builder after it returned or
\* raised: the fields keep what they hold, the root is appended to the queue
\* and the local ancestral_facts starts empty
BuildCorpusAgain ==
    /\ pc \in {"returned", "raised"}
    /\ reinvocations < MaxReinvocations
    /\ queue' = Append(queue, [topic_name |-> topic_name,
                               topic_description |-> topic_description,
                               depth |-> 0])
    /\ ancestral_facts' = <<>>
    /\ item' = NoItem
    /\ fs_prediction' = NoPrediction
    /\ article_prediction' = NoArticle
    /\ pc' = "loop"
    /\ reinvocations' = reinvocations + 1
    /\ entered_with' = Len(generated_corpus)
    /\ UNCHANGED <<topic_name, topic_description, max_depth, generated_corpus,
                   visited_topics, service, calls, popped, first_build>>
    /\ UNCHANGED <<fs_vars, filename_vars, forward_vars>>

NextRerun ==
    \/ Next
    \/ BuildCorpusAgain

\* a builder whose build_corpus is called several times
SpecRerun == Init /\ [][NextRerun]_vars

NextTwoBuilds ==
    \/ Next
    \/ NewBuilder

\* two builders with the same arguments, run one after the other against a
\* service that is a function of its arguments
SpecTwoBuilds == Init /\ [][NextTwoBuilds]_vars

----
\* helpers.get_next_run_directory: the run directories under output/<society>

\* how many times get_next_run_directory is called on the directory
MaxRunCalls == 3

\* the characters str.isdigit and \d accept among the names used here
DigitChars == <<"0", "1", "2", "3", "4", "5", "6", "7", "8", "9">>

Digits == {DigitChars[i] : i \in 1..10}

DigitValue(c) == (CHOOSE i \in 1..10 : DigitChars[i] = c) - 1

\* the literal prefix of the pattern; names are sequences of characters
RunPrefix == <<"r", "u", "n", "_">>

\* "$" matches at the end of the name and also before one trailing newline
BeforeDollar(name) ==
    IF Len(name) > 0 /\ name[Len(name)] = "\n"
        THEN SubSeq(name, 1, Len(name) - 1)
        ELSE name

\* group 1 of re.compile(r"^run_(\d+)$").match(name), <<>> when no match
RunDirPatternMatch(name) ==
    LET body == BeforeDollar(name)
    IN IF /\ Len(body) > Len(RunPrefix)
          /\ SubSeq(body, 1, Len(RunPrefix)) = RunPrefix
          /\ \A i \in (Len(RunPrefix) + 1)..Len(body) : body[i] \in Digits
          THEN SubSeq(body, Len(RunPrefix) + 1, Len(body))
          ELSE <<>>

RECURSIVE IntOf(_)
\* int(match.group(1)): the decimal value, leading zeros allowed
IntOf(digits) ==
    IF digits = <<>> THEN 0
    ELSE 10 * IntOf(SubSeq(digits, 1, Len(digits) - 1))
            + DigitValue(digits[Len(digits)])

RECURSIVE FormatInt(_)
\* the {next_i} of the f-string: decimal digits without leading zeros
FormatInt(n) ==
    IF n < 10 THEN <<DigitChars[n + 1]>>
    ELSE FormatInt(n \div 10) \o <<DigitChars[(n % 10) + 1]>>

\* f"run_{next_i}"
NextRunDirName(next_i) == RunPrefix \o FormatInt(next_i)

\* the indices the loop over base_dir.iterdir() compares with max_i
RunIndices(entries) ==
    {IntOf(RunDirPatternMatch(e.name)) :
        e \in {x \in entries : x.kind = "dir" /\ RunDirPatternMatch(x.name) # <<>>}}

\* max_i after the loop, starting from -1
MaxI(entries) ==
    IF RunIndices(entries) = {} THEN 0 - 1
    ELSE CHOOSE i \in RunIndices(entries) : \A j \in RunIndices(entries) : j <= i

\* next_dir.mkdir(parents=True, exist_ok=True) raises FileExistsError exactly
\* when the path exists and is not a directory
MkdirRaises(entries, name) == \E e \in entries : e.name = name /\ e.kind = "file"

\* the names an output directory may hold before the first call
EntryNames ==
    { RunPrefix \o <<"0">>, RunPrefix \o <<"1">>, RunPrefix \o <<"0", "2">>,
      RunPrefix \o <<"9">>, RunPrefix \o <<"x">>, RunPrefix \o <<"3", "\n">>,
      <<"n", "o", "t", "e", "s">> }

EntryKinds == {"dir", "file"}

\* the directory contents: any of the names, each absent, a directory or a file
Listings ==
    { {[name |-> n, kind |-> f[n]] : n \in {m \in EntryNames : f[m] # "absent"}} :
        f \in [EntryNames -> EntryKinds \cup {"absent"}] }

\* no build is running while the script chooses its output directory
InitRunDir ==
    /\ topic_name = RootName
    /\ topic_description = RootDescription
    /\ max_depth = MaxDepthBound
    /\ service = "stub"
    /\ generated_corpus = <<>>
    /\ queue = <<>>
    /\ visited_topics = {}
    /\ ancestral_facts = <<>>
    /\ item = NoItem
    /\ fs_prediction = NoPrediction
    /\ article_prediction = NoArticle
    /\ pc = "start"
    /\ calls = <<>>
    /\ popped = <<>>
    /\ base_dir \in Listings
    /\ run_results = <<>>
    /\ original_filename = <<>>
    /\ replacement_char = DefaultReplacement
    /\ converted = NotCalled
    /\ reconverted = NotCalled
    /\ lm_calls = <<>>
    /\ first_build = NoBuild
    /\ reinvocations = 0
    /\ entered_with = 0

\* one call of get_next_run_directory(base_dir), from entry to return or raise
GetNextRunDirectory ==
    /\ Len(run_results) < MaxRunCalls
    /\ LET next_i == MaxI(base_dir) + 1
           next_dir == NextRunDirName(next_i)
           raised == MkdirRaises(base_dir, next_dir)
       IN /\ base_dir' = IF raised THEN base_dir
                         ELSE base_dir \cup {[name |-> next_dir, kind |-> "dir"]}
          /\ run_results' = Append(run_results,
                                   [listing |-> base_dir, next_i |-> next_i,
                                    next_dir |-> next_dir, returned |-> ~raised])
    /\ UNCHANGED <<builder_vars, filename_vars, forward_vars, session_vars>>

NextRunDir == GetNextRunDirectory

\* successive calls of get_next_run_directory on one directory
SpecRunDir == InitRunDir /\ [][NextRunDir]_vars

----
\* helpers.convert_to_linux_filename; a string is a sequence of characters

\* the longest original_filename drawn
MaxNameLen == 3

\* the NULL character '\0'
Nul == "NUL"

\* U+FF0F FULLWIDTH SOLIDUS and U+FF0D FULLWIDTH HYPHEN-MINUS
FullwidthSolidus == "U+FF0F"

FullwidthHyphen == "U+FF0D"

\* the characters of the names drawn
FilenameChars == {"a", "-", "_", "/", "*", "\\", Nul, FullwidthSolidus, FullwidthHyphen}

\* the replacement_char arguments drawn: single characters, '' and '__'
ReplacementArgs ==
    {<<c>> : c \in {"_", "-", "*", "a", "\\", "/", Nul}} \cup {<<>>, <<"_", "_">>}

\* unicodedata.normalize('NFKC', c) of one character
NFKC(c) ==
    CASE c = FullwidthSolidus -> "/"
      [] c = FullwidthHyphen -> "-"
      [] OTHER -> c

\* unicodedata.normalize('NFKC', original_filename)
Normalize(s) == [i \in 1..Len(s) |-> NFKC(s[i])]

\* the class [\\:\*\?"<>\|&\$!`\'\(\)\[\]\{\};#\^%\+=\~\x00-\x1F\x7F]
ProblematicChars ==
    { "\\", ":", "*", "?", "\"", "<", ">", "|", "&", "$", "!", "`", "'", "(", ")",
      "[", "]", "{", "}", ";", "#", "^", "%", "+", "=", "~", Nul, "\t", "\n", "DEL" }

\* str.replace(old, new) and re.sub(class, new, s) for single characters
ReplaceChars(s, olds, new) == [i \in 1..Len(s) |-> IF s[i] \in olds THEN new ELSE s[i]]

\* re.sub parses a replacement holding a backslash as a template; a lone
\* backslash is a bad escape and re.error is raised before any matching
BadTemplate(r) == r = "\\"

\* if filename.startswith('-'): filename = replacement_char + filename[1:]
HandleLeadingHyphen(s, r) ==
    IF s # <<>> /\ s[1] = "-" THEN <<r>> \o Tail(s) ELSE s

RECURSIVE CollapseRuns(_, _)
\* re.sub(f'{re.escape(replacement_char)}+', replacement_char, filename)
CollapseRuns(s, r) ==
    IF Len(s) < 2 THEN s
    ELSE IF s[1] = r /\ s[2] = r THEN CollapseRuns(Tail(s), r)
    ELSE <<s[1]>> \o CollapseRuns(Tail(s), r)

RECURSIVE LStrip(_, _)
LStrip(s, r) == IF s # <<>> /\ s[1] = r THEN LStrip(Tail(s), r) ELSE s

RECURSIVE RStrip(_, _)
RStrip(s, r) ==
    IF s # <<>> /\ s[Len(s)] = r THEN RStrip(SubSeq(s, 1, Len(s) - 1), r) ELSE s

\* filename.strip(replacement_char)
Strip(s, r) == RStrip(LStrip(s, r), r)

\* steps 6 and 7: keep the stripped name unless it is empty, never return ''
EnsureNotEmpty(s, r) ==
    LET stripped_filename == Strip(s, r)
        filename == IF stripped_filename # <<>> THEN stripped_filename
                    ELSE IF s = <<>> THEN <<r>>
                    ELSE s
    IN IF filename = <<>> THEN <<r>> ELSE filename

Raised(error) == [outcome |-> error, filename |-> <<>>]

\* convert_to_linux_filename(original_filename, replacement_char)
ConvertToLinuxFilename(name, replacement) ==
    IF Len(replacement) # 1 THEN Raised("ValueError")
    ELSE LET r == replacement[1]
         IN IF r = "/" \/ r = Nul THEN Raised("ValueError")
            ELSE IF BadTemplate(r) THEN Raised("re.error")
            ELSE LET normalized == Normalize(name)
                     strict == ReplaceChars(ReplaceChars(normalized, {Nul}, r), {"/"}, r)
                     safe == ReplaceChars(strict, ProblematicChars, r)
                     hyphen == HandleLeadingHyphen(safe, r)
                     single == CollapseRuns(hyphen, r)
                 IN [outcome |-> "returned", filename |-> EnsureNotEmpty(single, r)]

InitFilename ==
    /\ topic_name = RootName
    /\ topic_description = RootDescription
    /\ max_depth = MaxDepthBound
    /\ service = "stub"
    /\ generated_corpus = <<>>
    /\ queue = <<>>
    /\ visited_topics = {}
    /\ ancestral_facts = <<>>
    /\ item = NoItem
    /\ fs_prediction = NoPrediction
    /\ article_prediction = NoArticle
    /\ pc = "start"
    /\ calls = <<>>
    /\ popped = <<>>
    /\ base_dir = {}
    /\ run_results = <<>>
    /\ original_filename \in UNION {[1..n -> FilenameChars] : n \in 0..MaxNameLen}
    /\ replacement_char \in ReplacementArgs
    /\ converted = NotCalled
    /\ reconverted = NotCalled
    /\ lm_calls = <<>>
    /\ first_build = NoBuild
    /\ reinvocations = 0
    /\ entered_with = 0

\* one call of convert_to_linux_filename, from entry to return or raise
CallConvertToLinuxFilename ==
    /\ converted = NotCalled
    /\ converted' = ConvertToLinuxFilename(original_filename, replacement_char)
    /\ UNCHANGED <<builder_vars, fs_vars, forward_vars, session_vars,
                   original_filename, replacement_char, reconverted>>

\* convert_to_linux_filename called on the filename it returned
CallOnResult ==
    /\ converted.outcome = "returned"
    /\ reconverted = NotCalled
    /\ reconverted' = ConvertToLinuxFilename(converted.filename, replacement_char)
    /\ UNCHANGED <<builder_vars, fs_vars, forward_vars, session_vars,
                   original_filename, replacement_char, converted>>

NextFilename ==
    \/ CallConvertToLinuxFilename
    \/ CallOnResult

\* calls of convert_to_linux_filename on any name with any replacement_char
SpecFilename == InitFilename /\ [][NextFilename]_vars

----------------------------------------------------------------------------
(* What the histories say *)

RECURSIVE Flatten(_)
\* the concatenation of a sequence of sequences
Flatten(ss) == IF ss = <<>> THEN <<>> ELSE Head(ss) \o Flatten(Tail(ss))

IsFs(c) == c.op = "fs"
IsArticle(c) == c.op = "article"

\* the facts+subtopics calls, in the order they were made
FsCalls == SelectSeq(calls, IsFs)

\* the facts+subtopics calls made for topic n
FsCallsOf(n) == {k \in 1..Len(calls) : IsFs(calls[k]) /\ calls[k].topic_name = n}

\* the article calls made for topic n
ArticleCallsOf(n) ==
    {k \in 1..Len(calls) : IsArticle(calls[k]) /\ calls[k].topic_name = n}

\* the corpus entries under key n
EntriesOf(n) ==
    {i \in 1..Len(generated_corpus) : generated_corpus[i].key = n}

\* the dequeues of an item named n
PoppedOf(n) == {i \in 1..Len(popped) : popped[i].topic_name = n}

\* the dequeues after which n was processed
ProcessedPops(n) ==
    {i \in PoppedOf(n) : ~popped[i].was_visited /\ popped[i].depth <= max_depth}

\* the first dequeue of an item named n
FirstPopped(n) == CHOOSE i \in PoppedOf(n) : \A j \in PoppedOf(n) : i <= j

\* the queue positions holding an item named n
QueuedOf(n) == {i \in 1..Len(queue) : queue[i].topic_name = n}

\* the names an answer proposes
NamesIn(subtopics) == {subtopics[i].name : i \in 1..Len(subtopics)}

\* the topics whose answer proposed n
Proposers(n) ==
    {calls[k].topic_name :
        k \in {j \in 1..Len(calls) :
                  IsFs(calls[j]) /\ n \in NamesIn(calls[j].returned.subtopics)}}

\* every name proposed so far, the root included
EverProposed ==
    {topic_name} \cup
    UNION {NamesIn(calls[k].returned.subtopics) :
              k \in {j \in 1..Len(calls) : IsFs(calls[j])}}

\* n was proposed by an answer given when n had already been processed
ProposedWhenVisited(n) ==
    \E j, k \in 1..Len(calls) :
        /\ j <= k
        /\ IsFs(calls[j]) /\ calls[j].topic_name = n
        /\ IsFs(calls[k]) /\ n \in NamesIn(calls[k].returned.subtopics)

\* the topics for which a generation call raised
FailedTopics ==
    {calls[k].topic_name : k \in {j \in 1..Len(calls) : ~calls[j].ok}}

\* the article calls that returned: one per completed topic
CompletedCalls == {k \in 1..Len(calls) : IsArticle(calls[k]) /\ calls[k].ok}

\* the depth at which n was dequeued and processed
ProcessedDepth(n) == popped[CHOOSE i \in ProcessedPops(n) : TRUE].depth

\* how often the list names n
Occurrences(subtopics, n) ==
    Cardinality({i \in 1..Len(subtopics) : subtopics[i].name = n})

RECURSIVE SumOver(_, _)
\* the sum of f over the set S
SumOver(f, S) ==
    IF S = {} THEN 0
    ELSE LET x == CHOOSE y \in S : TRUE IN f[x] + SumOver(f, S \ {x})

\* how often the corpus entries' subtopic lists name n
ProposalsInCorpus(n) ==
    SumOver([i \in 1..Len(generated_corpus) |->
                Occurrences(generated_corpus[i].value.subtopics, n)],
            1..Len(generated_corpus))

Terminated == pc \in {"returned", "raised"}

\* the generation service raised
SomeCallFailed == \E k \in 1..Len(calls) : ~calls[k].ok

LastFs == FsCalls[Len(FsCalls)]

StubScenario == service = "stub" /\ topic_name = "A" /\ max_depth = 1

----------------------------------------------------------------------------
(* Claims *)

\* C1: the ancestral facts passed to the i-th facts+subtopics call of a build
\* are the concatenation, in processing order, of the facts answered for the
\* topics processed before it (empty for the root).
C1_AncestralIsConcatenation ==
    \A i \in 1..Len(FsCalls) :
        FsCalls[i].ancestral_facts =
            Flatten([j \in 1..(i - 1) |-> FsCalls[j].returned.facts])

\* C1 witness: a third topic is called with the facts of the two before it.
C1_Witness ==
    /\ Len(FsCalls) = 3
    /\ FsCalls[3].ancestral_facts
          = FsCalls[1].returned.facts \o FsCalls[2].returned.facts
    /\ Len(FsCalls[3].ancestral_facts) = 3

\* C2: the article call of a topic follows its facts+subtopics call and gets
\* the same ancestral facts; the ancestral facts stay at that value until both
\* calls have returned and grow by the topic's facts only afterwards.
C2_ArticleSameSnapshot ==
    /\ \A k \in 1..Len(calls) :
          IsArticle(calls[k]) =>
              /\ k > 1
              /\ IsFs(calls[k - 1])
              /\ calls[k - 1].topic_name = calls[k].topic_name
              /\ calls[k].ancestral_facts = calls[k - 1].ancestral_facts
              /\ calls[k].facts = calls[k - 1].returned.facts
    /\ pc \in {"article_call", "insert", "extend", "raised"} =>
          ancestral_facts = LastFs.ancestral_facts
    /\ (pc \in {"enqueue", "loop", "returned"} /\ calls # <<>>) =>
          ancestral_facts = LastFs.ancestral_facts \o LastFs.returned.facts

\* C2 witness: a topic with facts of its own got its article under a
\* non-empty ancestral context, and its facts have just been appended.
C2_Witness ==
    /\ pc = "enqueue"
    /\ IsArticle(calls[Len(calls)])
    /\ calls[Len(calls)].ancestral_facts # <<>>
    /\ calls[Len(calls)].facts # <<>>

\* C3: each name is processed at most once: marked visited, sent to each
\* generation call and inserted in the corpus at most once, however many
\* queue items carried it.
C3_ProcessedAtMostOnce ==
    \A n \in SubNames :
        /\ Cardinality(ProcessedPops(n)) <= 1
        /\ Cardinality(FsCallsOf(n)) <= 1
        /\ Cardinality(ArticleCallsOf(n)) <= 1
        /\ Cardinality(EntriesOf(n)) <= 1

\* C3 witness: a build returned after dequeuing two items of one name.
C3_Witness ==
    /\ pc = "returned"
    /\ \E n \in SubNames :
          /\ Cardinality(PoppedOf(n)) >= 2
          /\ Cardinality(FsCallsOf(n)) = 1
          /\ Cardinality(EntriesOf(n)) = 1

\* C4: every corpus entry has a depth in 0..max_depth and a key that was
\* dequeued, at that depth, while not yet visited.
C4_EntriesWithinDepth ==
    \A i \in 1..Len(generated_corpus) :
        LET e == generated_corpus[i]
        IN  /\ 0 <= e.value.depth
            /\ e.value.depth <= max_depth
            /\ \E j \in PoppedOf(e.key) :
                  /\ ~popped[j].was_visited
                  /\ popped[j].depth = e.value.depth

\* C4 witness: the corpus holds an entry at the deepest allowed level.
C4_Witness ==
    /\ max_depth = 2
    /\ \E i \in 1..Len(generated_corpus) :
          generated_corpus[i].value.depth = max_depth

\* C5: a name proposed by two parents and carried by two queue items has,
\* once inserted, exactly one entry whose depth is the depth of the first of
\* its items to be dequeued, and has that entry when the build returns.
C5_FirstDequeueWins ==
    \A n \in SubNames :
        (/\ Cardinality(Proposers(n)) >= 2
         /\ Cardinality(PoppedOf(n)) + Cardinality(QueuedOf(n)) >= 2) =>
            /\ EntriesOf(n) # {} =>
                  /\ Cardinality(EntriesOf(n)) = 1
                  /\ DictGet(generated_corpus, n).depth
                        = popped[FirstPopped(n)].depth
            /\ pc = "returned" => EntriesOf(n) # {}

\* C5 witness: two parents proposed the name, both items were dequeued, at
\* different depths, and the build returned.
C5_Witness ==
    /\ pc = "returned"
    /\ \E n \in SubNames :
          /\ Cardinality(Proposers(n)) >= 2
          /\ Cardinality(PoppedOf(n)) = 2
          /\ \E i, j \in PoppedOf(n) : popped[i].depth < popped[j].depth
          /\ EntriesOf(n) # {}

\* C6: with max_depth = 0 nothing is ever appended to the queue (it is empty
\* from the root's dequeue on) and the returned corpus is the root alone, at
\* depth 0.
C6_MaxDepthZero ==
    max_depth = 0 =>
        /\ popped # <<>> => queue = <<>>
        /\ pc = "returned" =>
              /\ Keys(generated_corpus) = <<topic_name>>
              /\ generated_corpus[1].value.depth = 0

\* C6 witness: a build with max_depth = 0 returned although the root's
\* answer proposed a named, unvisited subtopic.
C6_Witness ==
    /\ max_depth = 0
    /\ pc = "returned"
    /\ Len(generated_corpus) = 1
    /\ "B" \in NamesIn(generated_corpus[1].value.subtopics)

\* C7: a name proposed when already visited is never processed again and
\* keeps a single corpus entry, and the build still comes to an end.
C7_VisitedProposalHarmless ==
    /\ [](\A n \in SubNames :
             ProposedWhenVisited(n) =>
                 /\ Cardinality(FsCallsOf(n)) = 1
                 /\ Cardinality(ArticleCallsOf(n)) <= 1
                 /\ Cardinality(EntriesOf(n)) <= 1)
    /\ ((\E n \in SubNames : ProposedWhenVisited(n)) ~> Terminated)

\* C7 witness: the root's answer proposed the root's own name and the build
\* returned with one entry for it.
C7_Witness ==
    /\ pc = "returned"
    /\ FsCalls # <<>>
    /\ topic_name \in NamesIn(FsCalls[1].returned.subtopics)
    /\ Cardinality(EntriesOf(topic_name)) = 1

\* C8: unless the generation service raises, the build returns, and the
\* number of processed topics never exceeds the number of distinct names
\* proposed, the root included; name cycles change nothing.
C8_TerminatesWithinV ==
    /\ [](Len(FsCalls) <= Cardinality(EverProposed))
    /\ <>(pc = "returned" \/ SomeCallFailed)

\* C8 witness: A proposed B, B proposed A, and the build returned.
C8_Witness ==
    /\ pc = "returned"
    /\ "A" \in Proposers("B")
    /\ "B" \in Proposers("A")

\* C9: in the end-to-end scenario the returned corpus has exactly the keys
\* A, B, C with depths 0, 1, 1 and A's facts are [f1, f2].
C9_Scenario ==
    (StubScenario /\ pc = "returned") =>
        /\ {generated_corpus[i].key : i \in 1..Len(generated_corpus)}
              = {"A", "B", "C"}
        /\ Len(generated_corpus) = 3
        /\ DictGet(generated_corpus, "A").depth = 0
        /\ DictGet(generated_corpus, "B").depth = 1
        /\ DictGet(generated_corpus, "C").depth = 1
        /\ DictGet(generated_corpus, "A").facts = <<"f1", "f2">>

\* C9 witness: the scenario's build returned.
C9_Witness == StubScenario /\ pc = "returned" /\ Len(generated_corpus) = 3

\* C10 as stated: in the scenario the calls for B and the calls for C all
\* get the ancestral facts [f1, f2].
C10_BothSeeRootFactsOnly ==
    StubScenario =>
        \A k \in 1..Len(calls) :
            calls[k].topic_name \in {"B", "C"} =>
                calls[k].ancestral_facts = <<"f1", "f2">>

\* C10 amended: in the scenario the calls for B get [f1, f2] and the calls
\* for C, processed after B, get [f1, f2, f3].
C10_SeeAllEarlierFacts ==
    StubScenario =>
        \A k \in 1..Len(calls) :
            /\ calls[k].topic_name = "B" =>
                  calls[k].ancestral_facts = <<"f1", "f2">>
            /\ calls[k].topic_name = "C" =>
                  calls[k].ancestral_facts = <<"f1", "f2", "f3">>

\* C10 witness: in the scenario both calls for C have been made.
C10_Witness ==
    /\ StubScenario
    /\ Cardinality(FsCallsOf("C")) = 1
    /\ Cardinality(ArticleCallsOf("C")) = 1

\* C11: after a generation call has failed, every topic completed before it
\* still has its corpus entry, holding what its calls returned and the depth
\* it was dequeued at.
C11_PartialCorpusKept ==
    SomeCallFailed =>
        \A k \in CompletedCalls :
            /\ Cardinality(EntriesOf(calls[k].topic_name)) = 1
            /\ DictGet(generated_corpus, calls[k].topic_name)
                  = GeneratedArticleData(calls[k].returned,
                                         calls[k - 1].returned.facts,
                                         calls[k - 1].returned.subtopics,
                                         ProcessedDepth(calls[k].topic_name))

\* C11 witness: a call failed after two topics had been completed.
C11_Witness ==
    /\ pc = "raised"
    /\ Cardinality(CompletedCalls) = 2
    /\ Len(generated_corpus) = 2

\* C12: a topic for which a generation call failed was called once (no
\* retry), has no corpus entry, left the ancestral facts as they were passed
\* to the failing call, and enqueued nothing: every item ever queued comes
\* from a proposal recorded in the corpus, or is the root.
C12_FailedTopicAborted ==
    \A t \in FailedTopics :
        /\ EntriesOf(t) = {}
        /\ Cardinality(FsCallsOf(t)) = 1
        /\ Cardinality(ArticleCallsOf(t)) <= 1
        /\ ancestral_facts = calls[Len(calls)].ancestral_facts
        /\ \A n \in SubNames :
              Cardinality(PoppedOf(n)) + Cardinality(QueuedOf(n))
                 <= ProposalsInCorpus(n) + (IF n = topic_name THEN 1 ELSE 0)

\* C12 witness: the facts+subtopics call answered with facts and a subtopic
\* that would have been queued, and the article call failed.
C12_Witness ==
    /\ pc = "raised"
    /\ IsArticle(calls[Len(calls)])
    /\ ~calls[Len(calls)].ok
    /\ calls[Len(calls)].facts # <<>>
    /\ item.depth < max_depth
    /\ \E i \in 1..Len(fs_prediction.subtopics) :
          QueueableSubtopic(fs_prediction.subtopics[i])

\* C13: once a generation call has failed, build_corpus has failed: it has
\* not returned, the failing call is the last call made, and the failing
\* topic's item is the last one dequeued.
C13_FailureStopsBuild ==
    SomeCallFailed =>
        /\ pc = "raised"
        /\ ~calls[Len(calls)].ok
        /\ \A k \in 1..(Len(calls) - 1) : calls[k].ok
        /\ popped[Len(popped)].topic_name = calls[Len(calls)].topic_name

\* C13 witness: a call failed while items were still waiting in the queue.
C13_Witness ==
    /\ pc = "raised"
    /\ SomeCallFailed
    /\ queue # <<>>

\* C14: when build_corpus, called on a newly constructed builder, returns,
\* the queue is empty and every named subtopic recorded in an entry of depth
\* below max_depth is itself a key of the corpus.
C14_ReturnedCorpusComplete ==
    pc = "returned" =>
        /\ queue = <<>>
        /\ \A i \in 1..Len(generated_corpus) :
              generated_corpus[i].value.depth < max_depth =>
                  \A n \in NamesIn(generated_corpus[i].value.subtopics) \ {""} :
                      HasKey(generated_corpus, n)

\* C14 witness: a returned corpus of three topics whose entry at depth 1
\* names a subtopic.
C14_Witness ==
    /\ pc = "returned"
    /\ max_depth = 2
    /\ Len(generated_corpus) = 3
    /\ \E i \in 1..Len(generated_corpus) :
          /\ generated_corpus[i].value.depth = 1
          /\ NamesIn(generated_corpus[i].value.subtopics) \ {""} # {}

\* C17: at the top of the loop, and where the loop is left, the visited set
\* has as many names as the corpus has entries plus the topics whose
\* generation failed; without a failure it is the set of corpus keys, and a
\* failed topic is visited and has no entry.
C17_VisitedCorpusAccounting ==
    pc \in {"loop", "returned", "raised"} =>
        /\ Cardinality(visited_topics)
              = Len(generated_corpus) + Cardinality(FailedTopics)
        /\ ~SomeCallFailed =>
              visited_topics
                 = {generated_corpus[i].key : i \in 1..Len(generated_corpus)}
        /\ \A t \in FailedTopics : t \in visited_topics /\ EntriesOf(t) = {}

\* C17 witness: the loop was left by a failure after one topic was completed.
C17_Witness ==
    /\ pc = "raised"
    /\ Len(generated_corpus) = 1
    /\ Cardinality(visited_topics) = 2

\* C18: an entry of depth 0 is the root, and an entry of depth d >= 1 is named
\* in the subtopics of an entry of depth d - 1.
C18_ReachableFromRoot ==
    \A i \in 1..Len(generated_corpus) :
        LET e == generated_corpus[i]
        IN  /\ e.key = topic_name => e.value.depth = 0
            /\ e.value.depth = 0 => e.key = topic_name
            /\ e.value.depth >= 1 =>
                  \E j \in 1..Len(generated_corpus) :
                      /\ generated_corpus[j].value.depth = e.value.depth - 1
                      /\ e.key \in NamesIn(generated_corpus[j].value.subtopics)

\* C18 witness: the corpus holds an entry two links away from the root.
C18_Witness ==
    \E i \in 1..Len(generated_corpus) : generated_corpus[i].value.depth = 2

\* C19: a facts+subtopics call asks for 8 subtopics exactly when its topic
\* was dequeued at depth 0, and for 4 otherwise.
C19_NumSubtopicsByDepth ==
    \A k \in 1..Len(calls) :
        IsFs(calls[k]) =>
            LET d == ProcessedDepth(calls[k].topic_name)
            IN  /\ d = 0 => calls[k].num_subtopics = 8
                /\ d # 0 => calls[k].num_subtopics = 4

\* C19 witness: calls were made for a topic at depth 0 and for one at depth 2.
C19_Witness ==
    /\ \E k \in 1..Len(calls) : IsFs(calls[k]) /\ calls[k].num_subtopics = 8
    /\ \E k \in 1..Len(calls) :
          /\ IsFs(calls[k])
          /\ calls[k].num_subtopics = 4
          /\ ProcessedDepth(calls[k].topic_name) = 2

\* C15: a builder with an empty root name is rejected before any generation
\* call: the empty name is never visited, never sent to the generation
\* service and never a corpus key.
C15_EmptyRootRejected ==
    topic_name = "" =>
        /\ calls = <<>>
        /\ ~("" \in visited_topics)
        /\ ~HasKey(generated_corpus, "")

\* C16: a builder with a negative max_depth is rejected before any generation
\* call, and build_corpus does not return a corpus for it.
C16_NegativeDepthRejected ==
    max_depth < 0 =>
        /\ calls = <<>>
        /\ pc # "returned"

\* the names of the form run_<digits>, and the index such a name carries
IsRunDigitsName(name) ==
    /\ Len(name) > Len(RunPrefix)
    /\ SubSeq(name, 1, Len(RunPrefix)) = RunPrefix
    /\ \A i \in (Len(RunPrefix) + 1)..Len(name) : name[i] \in Digits

RunDigitsIndices(entries) ==
    {IntOf(SubSeq(e.name, Len(RunPrefix) + 1, Len(e.name))) :
        e \in {x \in entries : x.kind = "dir" /\ IsRunDigitsName(x.name)}}

\* C20: every call of get_next_run_directory returns and creates run_i, i
\* being one more than the largest index of the run_<digits> directories that
\* existed at the call (0 when there is none), whatever files and other names
\* the directory holds; the indices of successive calls strictly increase.
C20_NextRunDirectory ==
    \A k \in 1..Len(run_results) :
        LET r == run_results[k]
            existing == RunDigitsIndices(r.listing)
        IN /\ r.returned
           /\ [name |-> r.next_dir, kind |-> "dir"] \in base_dir
           /\ r.next_dir = NextRunDirName(r.next_i)
           /\ existing = {} => r.next_i = 0
           /\ existing # {} =>
                 /\ r.next_i - 1 \in existing
                 /\ \A i \in existing : i < r.next_i
           /\ \A j \in 1..(k - 1) : run_results[j].next_i < r.next_i

\* the replacement characters the argument checks accept
ValidReplacement(replacement) ==
    Len(replacement) = 1 /\ replacement[1] # "/" /\ replacement[1] # Nul

\* inputs made only of characters the function replaces
OnlyInvalidChars(s) == \A i \in 1..Len(s) : s[i] \in ProblematicChars \cup {"/", Nul}

\* C21: for every input and every valid replacement character,
\* convert_to_linux_filename returns a non-empty string without '/' and
\* without NUL; an input that is empty or made only of invalid characters
\* gives the replacement character alone.
C21_ValidFilename ==
    (converted # NotCalled /\ ValidReplacement(replacement_char)) =>
        /\ converted.outcome = "returned"
        /\ converted.filename # <<>>
        /\ \A i \in 1..Len(converted.filename) :
              converted.filename[i] # "/" /\ converted.filename[i] # Nul
        /\ OnlyInvalidChars(original_filename) => converted.filename = replacement_char

\* C22: with the default replacement character, the filename returned by
\* convert_to_linux_filename never starts with a hyphen.
C22_NoLeadingHyphen ==
    (converted.outcome = "returned" /\ replacement_char = DefaultReplacement) =>
        converted.filename[1] # "-"

----------------------------------------------------------------------------
(* Steps of the loop, told by the histories and the position of the thread *)

\* the step runs queue.popleft()
DequeueStep == Len(popped') = Len(popped) + 1

\* the step is the for loop over the proposed subtopics of the current item
EnqueueStep == pc = "enqueue" /\ pc' = "loop"

\* the last dequeued item was processed to the end and nothing was dequeued since
JustProcessed ==
    /\ pc = "loop"
    /\ calls # <<>>
    /\ IsArticle(calls[Len(calls)]) /\ calls[Len(calls)].ok
    /\ popped[Len(popped)].topic_name = calls[Len(calls)].topic_name
    /\ ~popped[Len(popped)].was_visited

RECURSIVE ExpectedItems(_, _, _)
\* the list read front to back: an item of depth d + 1 for every entry with a
\* non-empty name outside visited, with the entry's own description
ExpectedItems(subtopics, visited, d) ==
    IF subtopics = <<>> THEN <<>>
    ELSE (IF Head(subtopics).name # "" /\ ~(Head(subtopics).name \in visited)
          THEN <<[topic_name |-> Head(subtopics).name,
                  topic_description |-> Head(subtopics).description,
                  depth |-> d + 1]>>
          ELSE <<>>)
         \o ExpectedItems(Tail(subtopics), visited, d)

\* C23: after a topic is processed at depth d < max_depth, exactly its
\* proposed subtopics with a non-empty name outside the visited set are
\* appended to the tail of the queue, in list order, with depth d + 1 and
\* their own description; at d = max_depth nothing is appended.
C23_EnqueueRule ==
    [][EnqueueStep =>
          /\ item.depth < max_depth =>
                queue' = queue \o ExpectedItems(fs_prediction.subtopics,
                                                visited_topics, item.depth)
          /\ item.depth = max_depth => queue' = queue
          /\ item.depth <= max_depth]_vars

C23_Witness ==
    /\ JustProcessed
    /\ item.depth < max_depth
    /\ Len(fs_prediction.subtopics) = 3
    /\ fs_prediction.subtopics[1].name \in visited_topics
    /\ fs_prediction.subtopics[2].name = ""
    /\ ~(fs_prediction.subtopics[3].name \in visited_topics \cup {""})
    /\ queue # <<>>
    /\ queue[Len(queue)] = [topic_name |-> fs_prediction.subtopics[3].name,
                            topic_description |-> fs_prediction.subtopics[3].description,
                            depth |-> item.depth + 1]

\* C25: dequeuing an item whose name is already visited removes that item
\* from the queue and nothing else: no generation call, and the corpus, the
\* visited set, the ancestral facts and the rest of the queue stay as they are.
C25_SkipVisitedFrame ==
    [][(DequeueStep /\ Head(queue).topic_name \in visited_topics) =>
          /\ queue' = Tail(queue)
          /\ pc' = "loop"
          /\ UNCHANGED <<calls, generated_corpus, visited_topics,
                         ancestral_facts>>]_vars

C25_Witness ==
    /\ pc = "loop"
    /\ popped # <<>>
    /\ popped[Len(popped)].was_visited
    /\ queue # <<>>
    /\ Len(generated_corpus) = 2

\* C27: a proposed subtopic with an empty name is not enqueued and stops
\* nothing: the entries after it in the same list are still enqueued, the
\* thread goes on to the next iteration, and the empty string is never
\* queued, dequeued, visited, a corpus key or the topic of a call.
C27_EmptyNameSkipped ==
    [][/\ \A i \in 1..Len(queue') : queue'[i].topic_name # ""
       /\ ~("" \in visited_topics')
       /\ ~HasKey(generated_corpus', "")
       /\ \A k \in 1..Len(calls') : calls'[k].topic_name # ""
       /\ (EnqueueStep /\ item.depth < max_depth) =>
             \A i \in 1..Len(fs_prediction.subtopics) :
                 LET n == fs_prediction.subtopics[i].name
                 IN (n # "" /\ ~(n \in visited_topics)) =>
                       \E j \in (Len(queue) + 1)..Len(queue') :
                           queue'[j].topic_name = n]_vars

C27_Witness ==
    /\ pc = "returned"
    /\ \E i \in 1..Len(generated_corpus) :
          LET subs == generated_corpus[i].value.subtopics
          IN /\ Len(subs) = 2
             /\ subs[1].name = ""
             /\ HasKey(generated_corpus, subs[2].name)
             /\ DictGet(generated_corpus, subs[2].name).depth
                   = generated_corpus[i].value.depth + 1

\* the step dequeues an unvisited item lying beyond the depth bound
DequeueBeyondBound ==
    /\ DequeueStep
    /\ ~(Head(queue).topic_name \in visited_topics)
    /\ Head(queue).depth > max_depth

\* the item is dropped and nothing else happens
DroppedWithoutEffect ==
    /\ queue' = Tail(queue)
    /\ pc' = "loop"
    /\ UNCHANGED <<calls, generated_corpus, visited_topics, ancestral_facts>>

\* C26 as stated: the depth bound plays no part at enqueue time, so the
\* queueable subtopics of every processed topic are appended whatever its
\* depth, and an item beyond the bound is dropped at dequeue without a
\* generation call, a visited mark or a corpus entry.
C26_BoundOnlyAtDequeue ==
    [][/\ EnqueueStep =>
             queue' = queue \o ExpectedItems(fs_prediction.subtopics,
                                             visited_topics, item.depth)
       /\ DequeueBeyondBound => DroppedWithoutEffect]_vars

\* C26 amended: the bound is enforced at both ends. Subtopics are appended
\* only by topics of depth < max_depth, so the only item that can lie beyond
\* the bound is the root of a builder with a negative max_depth; an item
\* beyond the bound is dropped at dequeue without a generation call, a
\* visited mark or a corpus entry.
C26_BoundAtBothEnds ==
    [][/\ \A i \in 1..Len(queue') :
             queue'[i].depth > max_depth =>
                 /\ max_depth < 0
                 /\ queue'[i] = [topic_name |-> topic_name,
                                 topic_description |-> topic_description,
                                 depth |-> 0]
       /\ EnqueueStep =>
             \/ queue' = queue
             \/ item.depth < max_depth
       /\ DequeueBeyondBound => DroppedWithoutEffect]_vars

C26_Witness ==
    /\ pc = "loop"
    /\ popped # <<>>
    /\ popped[Len(popped)].depth > max_depth
    /\ ~popped[Len(popped)].was_visited
    /\ calls = <<>>
    /\ visited_topics = {}

\* C24: the enqueue check looks at the visited set only, so the queue may
\* hold several items of one name; while none of them has been dequeued the
\* name is unvisited, the first one dequeued is the one processed, every
\* later one is dequeued with the name visited (Skip Rule A), and the name
\* gets one facts+subtopics call at most.
C24_DuplicatesInQueue ==
    \A n \in SubNames :
        /\ (Cardinality(QueuedOf(n)) >= 2 /\ PoppedOf(n) = {}) =>
              ~(n \in visited_topics)
        /\ PoppedOf(n) # {} =>
              /\ ~popped[FirstPopped(n)].was_visited
              /\ n \in visited_topics \/ popped[FirstPopped(n)].depth > max_depth
        /\ \A i, j \in PoppedOf(n) : i < j => popped[j].was_visited
        /\ Cardinality(FsCallsOf(n)) <= 1
        /\ Cardinality(EntriesOf(n)) <= 1

C24_Witness ==
    /\ pc = "returned"
    /\ \E n \in SubNames :
          /\ Cardinality(Proposers(n)) = 2
          /\ Cardinality(PoppedOf(n)) = 2
          /\ Cardinality(EntriesOf(n)) = 1
          /\ \E j \in PoppedOf(n) : popped[j].was_visited
          /\ \A i \in 1..Len(generated_corpus) :
                Occurrences(generated_corpus[i].value.subtopics, n) <= 1

\* C28: the corpus only grows: a step that changes it appends one entry
\* under a key that was absent, and every entry already there keeps its
\* position, key and record.
C28_CorpusMonotonic ==
    [][/\ Len(generated_corpus') >= Len(generated_corpus)
       /\ \A i \in 1..Len(generated_corpus) :
             generated_corpus'[i] = generated_corpus[i]
       /\ generated_corpus' # generated_corpus =>
             /\ Len(generated_corpus') = Len(generated_corpus) + 1
             /\ ~HasKey(generated_corpus,
                        generated_corpus'[Len(generated_corpus')].key)]_vars

C28_Witness ==
    /\ pc = "returned"
    /\ Len(generated_corpus) = 3
    /\ \E n \in SubNames : Cardinality(PoppedOf(n)) = 2

\* C29: topics are processed breadth first: the depths of the queued items
\* never decrease from front to back and start at or one above the depth of
\* the item last dequeued, items are dequeued in non-decreasing depth, and
\* the corpus keys are the processed topics in processing order, with
\* non-decreasing depths.
C29_BreadthFirstOrder ==
    /\ \A i, j \in 1..Len(queue) : i < j => queue[i].depth <= queue[j].depth
    /\ \A i, j \in 1..Len(popped) : i < j => popped[i].depth <= popped[j].depth
    /\ popped # <<>> =>
          \A i \in 1..Len(queue) :
              /\ popped[Len(popped)].depth <= queue[i].depth
              /\ queue[i].depth <= popped[Len(popped)].depth + 1
    /\ Len(generated_corpus) <= Len(FsCalls)
    /\ Len(FsCalls) <= Len(generated_corpus) + 1
    /\ \A i \in 1..Len(generated_corpus) :
          /\ generated_corpus[i].key = FsCalls[i].topic_name
          /\ generated_corpus[i].value.depth = ProcessedDepth(FsCalls[i].topic_name)
    /\ \A i, j \in 1..Len(generated_corpus) :
          i < j => generated_corpus[i].value.depth <= generated_corpus[j].value.depth

C29_Witness ==
    /\ pc = "loop"
    /\ Len(generated_corpus) = 2
    /\ Len(queue) = 3
    /\ queue[1].depth = 1
    /\ queue[3].depth = 2

\* the topic of the last call went through both calls, the insertion and the
\* append of its facts
LastTopicFinished ==
    LET c == calls[Len(calls)]
    IN /\ IsArticle(c) /\ c.ok
       /\ HasKey(generated_corpus, c.topic_name)
       /\ ancestral_facts = c.ancestral_facts \o c.facts

\* C30: the traversal is strictly sequential. For the item in hand the steps
\* come in the order mark-visited, facts+subtopics call, article call, corpus
\* insertion, ancestral-facts append, subtopic enqueue; every one of them
\* concerns the item in hand, and the next dequeue comes only after the last
\* of them.
C30_StrictlySequential ==
    [][/\ DequeueStep =>
             /\ pc = "loop"
             /\ calls = <<>> \/ LastTopicFinished
       /\ item' # item => DequeueStep
       /\ visited_topics' # visited_topics =>
             /\ DequeueStep
             /\ visited_topics' = visited_topics \cup {item'.topic_name}
             /\ pc' = "fs_call"
       /\ calls' # calls =>
             LET c == calls'[Len(calls')]
             IN /\ calls' = Append(calls, c)
                /\ item' = item
                /\ c.topic_name = item.topic_name
                /\ item.topic_name \in visited_topics
                /\ ~HasKey(generated_corpus, item.topic_name)
                /\ IsFs(c) =>
                      /\ FsCallsOf(item.topic_name) = {}
                      /\ ArticleCallsOf(item.topic_name) = {}
                /\ IsArticle(c) =>
                      /\ calls # <<>>
                      /\ IsFs(calls[Len(calls)])
                      /\ calls[Len(calls)].ok
                      /\ calls[Len(calls)].topic_name = item.topic_name
       /\ generated_corpus' # generated_corpus =>
             /\ item' = item
             /\ calls # <<>>
             /\ IsArticle(calls[Len(calls)])
             /\ calls[Len(calls)].ok
             /\ calls[Len(calls)].topic_name = item.topic_name
             /\ generated_corpus'[Len(generated_corpus')].key = item.topic_name
             /\ ancestral_facts' = calls[Len(calls)].ancestral_facts
             /\ queue' = queue
       /\ (pc = "extend" \/ ancestral_facts' # ancestral_facts) =>
             /\ pc = "extend"
             /\ item' = item
             /\ HasKey(generated_corpus, item.topic_name)
             /\ ancestral_facts' =
                   ancestral_facts \o DictGet(generated_corpus, item.topic_name).facts
             /\ queue' = queue
       /\ (pc = "enqueue" \/ (Len(queue') > Len(queue) /\ pc # "start")) =>
             /\ pc = "enqueue"
             /\ item' = item
             /\ LastTopicFinished
             /\ calls[Len(calls)].topic_name = item.topic_name
             /\ SubSeq(queue', 1, Len(queue)) = queue]_vars

C30_Witness ==
    /\ JustProcessed
    /\ Len(generated_corpus) = 2
    /\ Len(popped) = 2
    /\ queue # <<>>

\* C40: the filename returned for a valid replacement character r holds no
\* two consecutive r and, unless it is r alone, neither starts nor ends with
\* r; the function called on that filename returns it unchanged.
C40_CollapsedStrippedIdempotent ==
    /\ converted.outcome = "returned" =>
          LET f == converted.filename
              r == replacement_char[1]
          IN /\ \A i \in 1..(Len(f) - 1) : ~(f[i] = r /\ f[i + 1] = r)
             /\ f # <<r>> => (f[1] # r /\ f[Len(f)] # r)
    /\ reconverted # NotCalled => reconverted = converted

\* the dequeues that led to processing, discarded ones left out
AllProcessedPops ==
    {i \in 1..Len(popped) : ~popped[i].was_visited /\ popped[i].depth <= max_depth}

\* C31: while no call has failed, the calls come in pairs, a facts+subtopics
\* call and then the article call of the same topic, one pair per processed
\* dequeue and none for a discarded one; when build_corpus returns, the
\* facts+subtopics calls, the article calls and the corpus entries are
\* equally many.
C31_TwoCallsPerTopic ==
    ~SomeCallFailed =>
        /\ \A k \in 1..Len(calls) :
              /\ k % 2 = 1 => IsFs(calls[k])
              /\ k % 2 = 0 => /\ IsArticle(calls[k])
                              /\ calls[k].topic_name = calls[k - 1].topic_name
        /\ \A n \in SubNames :
              /\ Cardinality(FsCallsOf(n)) <= Cardinality(ProcessedPops(n))
              /\ Cardinality(ProcessedPops(n)) <= 1
              /\ Cardinality(ArticleCallsOf(n)) <= Cardinality(FsCallsOf(n))
        /\ pc \in {"loop", "returned"} =>
              /\ Len(calls) = 2 * Cardinality(AllProcessedPops)
              /\ Len(FsCalls) = Len(generated_corpus)
              /\ Len(SelectSeq(calls, IsArticle)) = Len(generated_corpus)

C31_Witness ==
    /\ pc = "returned"
    /\ Len(generated_corpus) = 3
    /\ Len(popped) = 5
    /\ Len(calls) = 6

\* C32: the record under a key holds the article its article call returned,
\* the facts and the whole subtopics list its facts+subtopics call returned,
\* and the depth at which it was dequeued; the article call was given those
\* same facts.
C32_RecordAsReturned ==
    \A i \in 1..Len(generated_corpus) :
        LET n == generated_corpus[i].key
        IN \E k \in FsCallsOf(n) :
              /\ calls[k].ok
              /\ k + 1 \in ArticleCallsOf(n)
              /\ calls[k + 1].ok
              /\ calls[k + 1].facts = calls[k].returned.facts
              /\ generated_corpus[i].value =
                    [article |-> calls[k + 1].returned,
                     facts |-> calls[k].returned.facts,
                     subtopics |-> calls[k].returned.subtopics,
                     depth |-> ProcessedDepth(n)]

C32_Witness ==
    /\ pc = "returned"
    /\ \E i \in 1..Len(generated_corpus) :
          LET v == generated_corpus[i].value
          IN /\ v.depth = max_depth
             /\ Len(v.subtopics) = 3
             /\ v.subtopics[1].name = ""
             /\ HasKey(generated_corpus, v.subtopics[2].name)
             /\ v.subtopics[3].name # ""
             /\ ~HasKey(generated_corpus, v.subtopics[3].name)

\* C38: the root is the only topic processed at depth 0: the first
\* generation call is the root's facts+subtopics call and asks for 8
\* subtopics, every later facts+subtopics call asks for 4, and every corpus
\* entry but the root's has depth >= 1.
C38_OnlyRootAtDepthZero ==
    /\ calls # <<>> =>
          /\ IsFs(calls[1])
          /\ calls[1].topic_name = topic_name
          /\ calls[1].num_subtopics = 8
    /\ \A k \in 2..Len(calls) : IsFs(calls[k]) => calls[k].num_subtopics = 4
    /\ \A i \in 1..Len(popped) :
          (i > 1 /\ ~popped[i].was_visited) => popped[i].depth >= 1
    /\ \A i \in 2..Len(generated_corpus) :
          /\ generated_corpus[i].value.depth >= 1
          /\ generated_corpus[i].key # topic_name
    /\ generated_corpus # <<>> =>
          /\ generated_corpus[1].key = topic_name
          /\ generated_corpus[1].value.depth = 0

C38_Witness ==
    /\ pc = "returned"
    /\ ~SomeCallFailed
    /\ Len(generated_corpus) = 3
    /\ \E i \in 2..Len(generated_corpus) :
          topic_name \in NamesIn(generated_corpus[i].value.subtopics)

\* the names the recorded answer of n proposes; none when n has no record
ProposedBy(n) ==
    IF HasKey(generated_corpus, n)
    THEN NamesIn(DictGet(generated_corpus, n).subtopics)
    ELSE {}

RECURSIVE WithinHops(_)
\* the names at most d subtopic hops away from the root
WithinHops(d) ==
    IF d < 0 THEN {}
    ELSE IF d = 0 THEN {topic_name}
    ELSE WithinHops(d - 1) \cup UNION {ProposedBy(n) : n \in WithinHops(d - 1)}

\* C33: when build_corpus returns, the depth stored with a key is the least
\* number of subtopic hops from the root to that name in the graph of the
\* proposed subtopics, and the keys are the non-empty names at most
\* max_depth hops away.
C33_DepthIsShortestDistance ==
    pc = "returned" =>
        /\ \A i \in 1..Len(generated_corpus) :
              LET n == generated_corpus[i].key
                  d == generated_corpus[i].value.depth
              IN /\ n \in WithinHops(d)
                 /\ ~(n \in WithinHops(d - 1))
        /\ {generated_corpus[i].key : i \in 1..Len(generated_corpus)}
              = WithinHops(max_depth) \ {""}

C33_Witness ==
    /\ pc = "returned"
    /\ max_depth = 2
    /\ \E i, j \in 1..Len(generated_corpus) :
          /\ generated_corpus[i].value.depth = 1
          /\ generated_corpus[j].value.depth = 1
          /\ i # j
          /\ generated_corpus[j].key \in NamesIn(generated_corpus[i].value.subtopics)
          /\ generated_corpus[j].key \in NamesIn(generated_corpus[1].value.subtopics)

IsFactsGen(c) == c.gen = "facts"

\* the calls to the facts generator, in the order they were made
FactsGenCalls == SelectSeq(lm_calls, IsFactsGen)

\* C39: inside the facts+subtopics operation the facts generator is called
\* first, with the topic name, the description and the ancestral facts but
\* not num_subtopics; the subtopics generator is called directly after it
\* answered, with the facts it returned, the same name, description and
\* ancestral facts, and the num_subtopics of the operation; when the facts
\* generator fails the subtopics generator is not called.
C39_FactsThenSubtopics ==
    /\ Len(FactsGenCalls) = Len(FsCalls)
    /\ \A k \in 1..Len(FsCalls) :
          /\ FactsGenCalls[k].topic_name = FsCalls[k].topic_name
          /\ FactsGenCalls[k].topic_description = FsCalls[k].topic_description
          /\ FactsGenCalls[k].ancestral_facts = FsCalls[k].ancestral_facts
          /\ FsCalls[k].ok => FactsGenCalls[k].returned = FsCalls[k].returned.facts
    /\ \A j \in 1..Len(lm_calls) :
          LET c == lm_calls[j]
          IN /\ IsFactsGen(c) =>
                   /\ c.keywords = {"topic_name", "topic_description", "ancestral_facts"}
                   /\ ~c.ok => j = Len(lm_calls)
                   /\ (c.ok /\ pc # "fs_call") =>
                         (j < Len(lm_calls) /\ ~IsFactsGen(lm_calls[j + 1]))
             /\ ~IsFactsGen(c) =>
                   /\ j > 1
                   /\ IsFactsGen(lm_calls[j - 1])
                   /\ lm_calls[j - 1].ok
                   /\ c.keywords = {"topic_name", "topic_description", "facts",
                                    "ancestral_facts", "num_subtopics"}
                   /\ c.facts = lm_calls[j - 1].returned
                   /\ c.topic_name = lm_calls[j - 1].topic_name
                   /\ c.topic_description = lm_calls[j - 1].topic_description
                   /\ c.ancestral_facts = lm_calls[j - 1].ancestral_facts
                   /\ c.num_subtopics =
                         FsCalls[Len(SelectSeq(SubSeq(lm_calls, 1, j), IsFactsGen))].num_subtopics
                   /\ c.ok => c.returned =
                         FsCalls[Len(SelectSeq(SubSeq(lm_calls, 1, j), IsFactsGen))].returned.subtopics

C39_Witness ==
    /\ pc = "raised"
    /\ Len(lm_calls) = 5
    /\ lm_calls[2].facts # <<>>
    /\ lm_calls[2].num_subtopics = 8
    /\ lm_calls[4].num_subtopics = 4
    /\ lm_calls[4].ancestral_facts # <<>>
    /\ IsFactsGen(lm_calls[5])
    /\ ~lm_calls[5].ok

\* C34: against a service that is a function of the call arguments, a second
\* builder with the same root name, description and max_depth makes the
\* same generation calls with the same arguments in the same order, inserts
\* the same keys with the same records in the same order, and ends as the
\* first one did.
C34_SameBuildTwice ==
    first_build.done =>
        /\ Len(calls) <= Len(first_build.calls)
        /\ calls = SubSeq(first_build.calls, 1, Len(calls))
        /\ Len(generated_corpus) <= Len(first_build.corpus)
        /\ generated_corpus = SubSeq(first_build.corpus, 1, Len(generated_corpus))
        /\ pc \in {"returned", "raised"} =>
              /\ pc = first_build.outcome
              /\ calls = first_build.calls
              /\ generated_corpus = first_build.corpus

C34_Witness ==
    /\ first_build.done
    /\ pc = "returned"
    /\ Len(generated_corpus) = 3
    /\ Len(popped) = 5

\* the item build_corpus puts in the queue when it is entered
RootItem ==
    [topic_name |-> topic_name, topic_description |-> topic_description, depth |-> 0]

NotProcessedAgain(t) ==
    /\ \A k \in (Len(calls) + 1)..Len(calls') : calls'[k].topic_name # t
    /\ ~HasKey(generated_corpus', t)
    /\ t \in visited_topics
    /\ t \in visited_topics'

\* the step puts no further item named t in the queue
NotEnqueued(t) ==
    Cardinality({i \in 1..Len(queue') : queue'[i].topic_name = t})
        <= Cardinality(QueuedOf(t))

\* C36 as stated: over any sequence of build_corpus calls on one builder, a
\* topic whose generation call failed stays visited, gets no further call
\* and no corpus entry, and is never enqueued again.
C36_FailedNeverEnqueuedAgain ==
    [][\A t \in FailedTopics : NotProcessedAgain(t) /\ NotEnqueued(t)]_vars

\* C36 amended: over any sequence of build_corpus calls on one builder, a
\* topic whose generation call failed stays visited, gets no further call
\* and no corpus entry, and is never enqueued again as a subtopic; when it
\* is the root, each later build_corpus call puts it in the queue once more,
\* and every dequeue of a failed topic discards the item.
C36_FailedStaysVisited ==
    [][\A t \in FailedTopics :
          /\ NotProcessedAgain(t)
          /\ \/ NotEnqueued(t)
             \/ /\ t = topic_name
                /\ pc \in {"returned", "raised"}
                /\ queue' = Append(queue, RootItem)
          /\ (DequeueStep /\ Head(queue).topic_name = t) =>
                /\ pc' = "loop"
                /\ generated_corpus' = generated_corpus
                /\ calls' = calls]_vars

C36_Witness ==
    /\ reinvocations = 1
    /\ pc = "returned"
    /\ FailedTopics # {}
    /\ ~(topic_name \in FailedTopics)
    /\ Len(generated_corpus) > entered_with
    /\ \E i \in 1..Len(generated_corpus) :
          FailedTopics \cap NamesIn(generated_corpus[i].value.subtopics) # {}
             /\ i > entered_with

\* the facts of the corpus entries from position k + 1 on, in insertion order
FactsFrom(k) ==
    Flatten([i \in 1..(Len(generated_corpus) - k) |->
                generated_corpus[k + i].value.facts])

\* C37 as stated: over any sequence of build_corpus calls on one builder, at
\* every loop boundary the ancestral facts are the facts of all the entries
\* in the corpus, in insertion order.
C37_AncestralIsWholeCorpus ==
    pc = "loop" => ancestral_facts = FactsFrom(0)

\* C37 amended: at every loop boundary the ancestral facts are the facts, in
\* insertion order, of the entries inserted since the running build_corpus
\* call was entered; each call starts from an empty list, whatever the
\* corpus already holds.
C37_AncestralIsThisCallsFacts ==
    pc = "loop" => ancestral_facts = FactsFrom(entered_with)

C37_Witness ==
    /\ pc = "loop"
    /\ reinvocations = 1
    /\ entered_with >= 1
    /\ Len(generated_corpus) = entered_with + 1
    /\ ancestral_facts # <<>>
    /\ queue # <<>>

====
